---- MODULE Spec2Model ----
(***************************************************************************)
(* A model of the users CRUD API: the five request handlers of the         *)
(* controller (src/unnamed/part_000), the store adapter they call          *)
(* (src/src/index.ts, lines 84-126) and the users table behind it.         *)
(*                                                                         *)
(* One exchange is one handler run: a handler is enabled when the server   *)
(* is idle, runs to its end in one step (it issues at most one statement,  *)
(* which the store executes atomically) and leaves the request, the        *)
(* response and what it did to the store in req, res, storeCalls,          *)
(* storeFailed and escaped; EndRequest then returns the server to idle.    *)
(***************************************************************************)
EXTENDS Integers, Sequences, FiniteSets, TLC

\* Bounds of the model.
MaxParamLen == 2      \* longest :id path segment, in characters
MaxId == 3            \* the store's id sequence is followed up to this value

VARIABLES
    users,        \* the rows of table users
    nextId,       \* the next value of the id sequence of the table
    created,      \* history: ids returned by a successful create
    deleted,      \* history: ids removed by a successful delete
    lastCreated,  \* history: the row of the latest 201, until that id is updated or deleted
    req,          \* the request of the current exchange
    res,          \* what the handler sent
    storeCalls,   \* adapter calls the handler issued
    storeFailed,  \* whether the adapter call threw
    escaped       \* whether an error left the handler uncaught

vars == <<users, nextId, created, deleted, lastCreated, req, res,
          storeCalls, storeFailed, escaped>>

----------------------------------------------------------------------------
(* Request inputs *)

\* Characters a path segment is made of.
Chars == {"0", "1", "2", "x"}
Digits == {"0", "1", "2"}

\* req.params.id: a non-empty text.
Params == UNION {[1..n -> Chars] : n \in 1..MaxParamLen}

\* JSON values of a body field; "undefined" is a field the body does not have.
Undefined == [type |-> "undefined", v |-> ""]
Null == [type |-> "null", v |-> ""]
Str(s) == [type |-> "string", v |-> s]
Num(s) == [type |-> "number", v |-> s]
Vals == {Undefined, Null, Str(""), Str("Ana"), Num("7")}

\* req.body: undefined when no middleware parsed it, else an object.
NoBody == [present |-> FALSE, name |-> Undefined, email |-> Undefined]
Bodies == {NoBody} \cup [present : {TRUE}, name : Vals, email : Vals]

\* JavaScript truthiness, as `!name` reads it.
Truthy(v) ==
    \/ v.type = "string" /\ v.v # ""
    \/ v.type = "number" /\ v.v # "0"

----------------------------------------------------------------------------
(* Number(id): text to number *)

NaN == [nan |-> TRUE, val |-> 0]
Finite(n) == [nan |-> FALSE, val |-> n]

DigitVal(c) == CASE c = "0" -> 0 [] c = "1" -> 1 [] c = "2" -> 2

RECURSIVE Radix(_, _)
Radix(s, base) ==
    IF s = <<>> THEN 0
    ELSE Radix(SubSeq(s, 1, Len(s) - 1), base) * base + DigitVal(s[Len(s)])

AllDigits(s) == \A i \in 1..Len(s) : s[i] \in Digits

Number(s) ==
    IF AllDigits(s) THEN Finite(Radix(s, 10))
    ELSE IF /\ Len(s) >= 3
            /\ s[1] = "0"
            /\ s[2] = "x"
            /\ AllDigits(SubSeq(s, 3, Len(s)))
         THEN Finite(Radix(SubSeq(s, 3, Len(s)), 16))
    ELSE NaN

----------------------------------------------------------------------------
(* The store: table users and the statements of the adapter *)

\* A column value: SQL NULL or a text.
SqlNull == [isNull |-> TRUE, text |-> ""]
SqlText(s) == [isNull |-> FALSE, text |-> s]

\* A bound parameter as the client sends it: undefined and null become NULL,
\* a string is sent as it is, a number as its decimal text.
PrepareValue(v) ==
    IF v.type \in {"undefined", "null"} THEN SqlNull ELSE SqlText(v.v)

\* WHERE id = $1: the rows whose id is the bound number (NaN equals no id).
Match(tbl, id) == {r \in tbl : ~id.nan /\ r.id = id.val}

\* result.rows.length > 0 ? result.rows[0] : null, as a set of at most one row.
FirstOrNull(rows) == IF rows = {} THEN {} ELSE {CHOOSE r \in rows : TRUE}

\* Each statement gives what the adapter returns and the table it leaves.

\* Mutant: the rows[0] idiom of the other statements copied into the listing.
GetAllUsersFirstRow(tbl) == [rows |-> FirstOrNull(tbl), table |-> tbl]

UserModel_getAllUsers(tbl) == [rows |-> tbl, table |-> tbl]

UserModel_getUserById(tbl, id) ==
    [rows |-> FirstOrNull(Match(tbl, id)), table |-> tbl]

UserModel_createUser(tbl, seq, name, email) ==
    LET row == [id |-> seq, name |-> PrepareValue(name), email |-> PrepareValue(email)]
    IN  [rows |-> {row}, table |-> tbl \cup {row}]

\* Mutant: an upsert, which inserts the row when no row matches.
UpdateUserUpsert(tbl, id, name, email) ==
    LET hit == Match(tbl, id)
        new == [id |-> id.val, name |-> PrepareValue(name), email |-> PrepareValue(email)]
    IN  [rows |-> {new}, table |-> (tbl \ hit) \cup {new}]

\* Mutant: UPDATE without its WHERE clause, which rewrites every row.
UpdateUserNoWhere(tbl, id, name, email) ==
    LET new == {[id |-> r.id, name |-> PrepareValue(name), email |-> PrepareValue(email)] :
                    r \in tbl}
    IN  [rows |-> FirstOrNull(new), table |-> new]

UserModel_updateUser(tbl, id, name, email) ==
    LET hit == Match(tbl, id)
        new == {[id |-> r.id, name |-> PrepareValue(name), email |-> PrepareValue(email)] :
                    r \in hit}
    IN  [rows |-> FirstOrNull(new), table |-> (tbl \ hit) \cup new]

\* Mutant: a SELECT in place of the DELETE, which returns the row and keeps it.
DeleteUserKeepsRow(tbl, id) == [rows |-> FirstOrNull(Match(tbl, id)), table |-> tbl]

\* Mutant: DELETE without its WHERE clause, which removes every row.
DeleteUserNoWhere(tbl, id) == [rows |-> FirstOrNull(tbl), table |-> {}]

UserModel_deleteUser(tbl, id) ==
    LET hit == Match(tbl, id)
    IN  [rows |-> FirstOrNull(hit), table |-> tbl \ hit]

----------------------------------------------------------------------------
(* Responses *)

NoReq == [op |-> "none", param |-> <<>>, body |-> NoBody]
NoRes == [sent |-> 0, status |-> 0, kind |-> "none", text |-> "", rows |-> {}]

\* res.status(status).json(...)
Json(status, kind, text, rows) ==
    [sent |-> 1, status |-> status, kind |-> kind, text |-> text, rows |-> rows]

MsgRequired == "Nome e email são obrigatórios"
MsgNotFound == "Usuário não encontrado"
MsgDeleted == "Usuário deletado com sucesso"

\* Mutant: one catch block pasted into every handler, message included.
ErrorMessagePasted(op) == "Erro ao obter usuário"

\* The message of each handler's catch block.
ErrorMessage(op) ==
    CASE op = "list" -> "Erro ao obter usuários"
      [] op = "get" -> "Erro ao obter usuário"
      [] op = "create" -> "Erro ao adicionar usuário"
      [] op = "update" -> "Erro ao atualizar usuário"
      [] op = "delete" -> "Erro ao deletar usuário"

\* catch (error) { console.error(...); res.status(500).json({ error: ... }) }
CatchResponse(op) == Json(500, "error", ErrorMessage(op), {})

\* Mutant: the check written for name alone.
ValidNameOnly(b) == Truthy(b.name)

\* Mutant: && in place of ||, which rejects only when both are missing.
ValidEither(b) == Truthy(b.name) \/ Truthy(b.email)

\* if (!name || !email): the body passes when both are truthy.
Valid(b) == Truthy(b.name) /\ Truthy(b.email)

\* Mutant: the condition inverted.
FoundResponseInverted(rows) ==
    IF rows # {} THEN Json(404, "error", MsgNotFound, {})
    ELSE Json(200, "user", "", rows)

\* if (!user) 404 else 200 with the row.
FoundResponse(rows) ==
    IF rows = {} THEN Json(404, "error", MsgNotFound, {})
    ELSE Json(200, "user", "", rows)

\* if (!deletedUser) 404 else 200 with the success message.
DeletedResponse(rows) ==
    IF rows = {} THEN Json(404, "error", MsgNotFound, {})
    ELSE Json(200, "message", MsgDeleted, {})

----------------------------------------------------------------------------
(* State *)

Init ==
    /\ users = {}
    /\ nextId = 1
    /\ created = {}
    /\ deleted = {}
    /\ lastCreated = {}
    /\ req = NoReq
    /\ res = NoRes
    /\ storeCalls = 0
    /\ storeFailed = FALSE
    /\ escaped = FALSE

Idle == req.op = "none"

\* What one handler run leaves behind for the observer.
Exchange(r, response, calls, failed, esc) ==
    /\ req' = r
    /\ res' = response
    /\ storeCalls' = calls
    /\ storeFailed' = failed
    /\ escaped' = esc

\* A handler run that never reached the store, or whose statement failed.
StoreUntouched == UNCHANGED <<users, nextId, created, deleted, lastCreated>>

----------------------------------------------------------------------------
(* The handlers *)

\* GET /
getAllUsers ==
    /\ Idle
    /\ \E fail \in BOOLEAN :
        LET r == [op |-> "list", param |-> <<>>, body |-> NoBody]
            q == UserModel_getAllUsers(users)
        IN  IF fail
            THEN /\ Exchange(r, CatchResponse("list"), 1, TRUE, FALSE)
                 /\ StoreUntouched
            ELSE /\ Exchange(r, Json(200, "users", "", q.rows), 1, FALSE, FALSE)
                 /\ users' = q.table
                 /\ UNCHANGED <<nextId, created, deleted, lastCreated>>

\* GET /:id
getUserById ==
    /\ Idle
    /\ \E id \in Params, fail \in BOOLEAN :
        LET r == [op |-> "get", param |-> id, body |-> NoBody]
            q == UserModel_getUserById(users, Number(id))
        IN  IF fail
            THEN /\ Exchange(r, CatchResponse("get"), 1, TRUE, FALSE)
                 /\ StoreUntouched
            ELSE /\ Exchange(r, FoundResponse(q.rows), 1, FALSE, FALSE)
                 /\ users' = q.table
                 /\ UNCHANGED <<nextId, created, deleted, lastCreated>>

\* POST /
createUser ==
    /\ Idle
    /\ \E b \in Bodies, fail \in BOOLEAN :
        LET r == [op |-> "create", param |-> <<>>, body |-> b]
            q == UserModel_createUser(users, nextId, b.name, b.email)
        IN  IF ~b.present
            THEN \* destructuring undefined throws before the try block
                 /\ Exchange(r, NoRes, 0, FALSE, TRUE)
                 /\ StoreUntouched
            ELSE IF ~Valid(b)
            THEN /\ Exchange(r, Json(400, "error", MsgRequired, {}), 0, FALSE, FALSE)
                 /\ StoreUntouched
            ELSE /\ nextId <= MaxId
                 /\ IF fail
                    THEN \* a failed INSERT may have drawn its id from the sequence
                         /\ Exchange(r, CatchResponse("create"), 1, TRUE, FALSE)
                         /\ nextId' \in {nextId, nextId + 1}
                         /\ UNCHANGED <<users, created, deleted, lastCreated>>
                    ELSE /\ Exchange(r, Json(201, "user", "", q.rows), 1, FALSE, FALSE)
                         /\ users' = q.table
                         /\ nextId' = nextId + 1
                         /\ created' = created \cup {u.id : u \in q.rows}
                         /\ lastCreated' = q.rows
                         /\ UNCHANGED deleted

\* PUT /:id
updateUser ==
    /\ Idle
    /\ \E id \in Params, b \in Bodies, fail \in BOOLEAN :
        LET r == [op |-> "update", param |-> id, body |-> b]
            q == UserModel_updateUser(users, Number(id), b.name, b.email)
        IN  IF ~b.present
            THEN /\ Exchange(r, NoRes, 0, FALSE, TRUE)
                 /\ StoreUntouched
            ELSE IF ~Valid(b)
            THEN /\ Exchange(r, Json(400, "error", MsgRequired, {}), 0, FALSE, FALSE)
                 /\ StoreUntouched
            ELSE IF fail
            THEN /\ Exchange(r, CatchResponse("update"), 1, TRUE, FALSE)
                 /\ StoreUntouched
            ELSE /\ Exchange(r, FoundResponse(q.rows), 1, FALSE, FALSE)
                 /\ users' = q.table
                 /\ lastCreated' = {u \in lastCreated : \A w \in q.rows : w.id # u.id}
                 /\ UNCHANGED <<nextId, created, deleted>>

\* DELETE /:id
deleteUser ==
    /\ Idle
    /\ \E id \in Params, fail \in BOOLEAN :
        LET r == [op |-> "delete", param |-> id, body |-> NoBody]
            q == UserModel_deleteUser(users, Number(id))
        IN  IF fail
            THEN /\ Exchange(r, CatchResponse("delete"), 1, TRUE, FALSE)
                 /\ StoreUntouched
            ELSE /\ Exchange(r, DeletedResponse(q.rows), 1, FALSE, FALSE)
                 /\ users' = q.table
                 /\ deleted' = deleted \cup {u.id : u \in q.rows}
                 /\ lastCreated' = {u \in lastCreated : \A w \in q.rows : w.id # u.id}
                 /\ UNCHANGED <<nextId, created>>

\* The exchange is over; the server goes on to serve the next request.
EndRequest ==
    /\ ~Idle
    /\ Exchange(NoReq, NoRes, 0, FALSE, FALSE)
    /\ StoreUntouched

Next ==
    \/ getAllUsers
    \/ getUserById
    \/ createUser
    \/ updateUser
    \/ deleteUser
    \/ EndRequest

Spec == Init /\ [][Next]_vars

----------------------------------------------------------------------------
(* Properties *)

\* A handler has run and its exchange is not over yet.
Handled(op) == req.op = op

\* The row whose id the path segment names, if the segment is a number.
Names(param, u) == Number(param) = Finite(u.id)

\* C1: every handler run, whatever the path segment and the body (req.body
\* undefined included) and whether or not the store call succeeds, sends
\* exactly one response, and no error leaves the handler uncaught.
C1_OneResponseNoEscape ==
    ~Idle => (res.sent = 1 /\ ~escaped)

C3_CreateThenGet ==
    [][ /\ ( /\ req'.op = "create"
             /\ req'.body.present
             /\ Truthy(req'.body.name)
             /\ Truthy(req'.body.email)
             /\ ~storeFailed' )
           => ( /\ res'.status = 201
                /\ res'.kind = "user"
                /\ \E u \in users' :
                       /\ res'.rows = {u}
                       /\ u.id = nextId
                       /\ \A w \in users : w.id # u.id )
        /\ ( /\ req'.op = "get"
             /\ ~storeFailed'
             /\ \E u \in lastCreated : Names(req'.param, u) )
           => ( /\ res'.status = 200
                /\ res'.kind = "user"
                /\ res'.rows = lastCreated ) ]_vars

C3_Witness ==
    /\ Handled("get")
    /\ res.status = 200
    /\ res.rows = lastCreated
    /\ Cardinality(users) >= 2

\* C4: in each of the five handlers, when the store call throws, the handler
\* answers 500 with its own static message, never 200, 201 or 404, and
\* issues no second store call.
C4_StoreFailureIs500 ==
    storeFailed =>
        /\ res.sent = 1
        /\ res.status = 500
        /\ res.kind = "error"
        /\ storeCalls = 1
        /\ req.op = "list" => res.text = "Erro ao obter usuários"
        /\ req.op = "get" => res.text = "Erro ao obter usuário"
        /\ req.op = "create" => res.text = "Erro ao adicionar usuário"
        /\ req.op = "update" => res.text = "Erro ao atualizar usuário"
        /\ req.op = "delete" => res.text = "Erro ao deletar usuário"

C4_Witness ==
    /\ storeFailed
    /\ Handled("delete")
    /\ res.status = 500
    /\ users # {}

\* C5: from an empty table, after N successful creates and M successful
\* deletes, a listing whose SELECT succeeds answers 200 with exactly N - M
\* rows, one per user created and not deleted, each the current row of the
\* table for that id.
C5_ListReturnsLiveUsers ==
    (Handled("list") /\ ~storeFailed) =>
        /\ res.status = 200
        /\ res.kind = "users"
        /\ Cardinality(res.rows) = Cardinality(created) - Cardinality(deleted)
        /\ {u.id : u \in res.rows} = created \ deleted
        /\ res.rows = users

C5_Witness ==
    /\ Handled("list")
    /\ res.status = 200
    /\ Cardinality(created) = 3
    /\ Cardinality(deleted) = 1
    /\ Cardinality(res.rows) = 2

\* C6: once a delete of an id has succeeded, every later get-by-id of that id
\* whose SELECT succeeds answers 404 with "Usuário não encontrado", whatever
\* ran in between.
C6_DeletedStaysAbsent ==
    ( /\ Handled("get")
      /\ ~storeFailed
      /\ \E i \in deleted : Number(req.param) = Finite(i) )
    => ( /\ res.status = 404
         /\ res.kind = "error"
         /\ res.text = "Usuário não encontrado" )

C6_Witness ==
    /\ Handled("get")
    /\ ~storeFailed
    /\ \E i \in deleted : Number(req.param) = Finite(i)
    /\ res.status = 404
    /\ nextId > MaxId

\* C7: an update with truthy name and email of an id that matches no row,
\* whose UPDATE succeeds, answers 404 with the not-found body and inserts
\* nothing: the table is the same before and after.
C7_UpdateMissingIs404 ==
    [][ ( /\ req'.op = "update"
          /\ req'.body.present
          /\ Truthy(req'.body.name)
          /\ Truthy(req'.body.email)
          /\ ~storeFailed'
          /\ \A u \in users : ~Names(req'.param, u) )
        => ( /\ res'.status = 404
             /\ res'.kind = "error"
             /\ res'.text = "Usuário não encontrado"
             /\ storeCalls' = 1
             /\ users' = users ) ]_vars

C7_Witness ==
    /\ Handled("update")
    /\ ~storeFailed
    /\ res.status = 404
    /\ ~Number(req.param).nan
    /\ users # {}

\* C8: a delete of an id that matches no row, whose DELETE succeeds, answers
\* 404 with the not-found body and leaves the table unchanged.
C8_DeleteMissingIs404 ==
    [][ ( /\ req'.op = "delete"
          /\ ~storeFailed'
          /\ \A u \in users : ~Names(req'.param, u) )
        => ( /\ res'.status = 404
             /\ res'.kind = "error"
             /\ res'.text = "Usuário não encontrado"
             /\ storeCalls' = 1
             /\ users' = users ) ]_vars

C8_Witness ==
    /\ Handled("delete")
    /\ ~storeFailed
    /\ res.status = 404
    /\ ~Number(req.param).nan
    /\ Cardinality(users) >= 2

\* C9: in every reachable state every row of the table has an id the
\* sequence assigned, a non-null name and a non-null email.
C9_RowsHaveNoNulls ==
    \A u \in users :
        /\ u.id \in 1..MaxId
        /\ ~u.name.isNull
        /\ ~u.email.isNull

C9_Witness ==
    /\ Cardinality(users) = MaxId
    /\ \E u \in users : u.name = SqlText("7") /\ u.email = SqlText("Ana")
    /\ Handled("update")
    /\ res.status = 200

\* C10: an update with truthy name and email of an id that matches a row,
\* whose UPDATE succeeds, answers 200 with the updated row; that row keeps
\* its id and has the new name and email, every other row is unchanged and
\* no row is added or removed.
C10_UpdateRewritesOneRow ==
    [][ \A old \in users :
          ( /\ req'.op = "update"
            /\ req'.body.present
            /\ Truthy(req'.body.name)
            /\ Truthy(req'.body.email)
            /\ ~storeFailed'
            /\ Names(req'.param, old) )
          => LET new == [id |-> old.id,
                         name |-> SqlText(req'.body.name.v),
                         email |-> SqlText(req'.body.email.v)]
             IN  /\ res'.status = 200
                 /\ res'.kind = "user"
                 /\ res'.rows = {new}
                 /\ new \in users'
                 /\ \A w \in users : w.id # old.id => w \in users'
                 /\ \A w \in users' : w.id # old.id => w \in users
                 /\ Cardinality(users') = Cardinality(users)
                 /\ {w.id : w \in users'} = {w.id : w \in users} ]_vars

C10_Witness ==
    /\ Handled("update")
    /\ res.status = 200
    /\ \E u \in res.rows : u.name = SqlText("Ana") /\ u.email = SqlText("7")
    /\ Cardinality(users) >= 2
    /\ \E w \in users : w.name = SqlText("7")

====
